---- MODULE Spec2Model ----
(***************************************************************************)
(* Thought-lineage graph engine of the sequentialthinking server.          *)
(*                                                                         *)
(* SequentialThinkingServer.processThought (index.ts) validates a record,  *)
(* appends it to thoughtHistory and hands it to WebUIServer.updateThought  *)
(* (webui.ts, first class definition), which derives one D3 node and the   *)
(* D3 links of the record, appends them to nodes/links and broadcasts a    *)
(* "thoughtAdded" delta.  Every socket.io observer gets an "init" snapshot *)
(* on connection and keeps a mirror (nodesData/linksData/nodeMap).         *)
(*                                                                         *)
(* Encoding of JavaScript values: an optional or untyped field is a tuple: *)
(*   <<>>        undefined (field absent)                                  *)
(*   <<v>>       the value v, of the type the field is declared with       *)
(*   Mistyped    a value of another type (the object {}: truthy, and       *)
(*               typeof is neither "string", "number" nor "boolean")       *)
(* The server is constructed with the web UI enabled (webUIServer # null). *)
(***************************************************************************)
EXTENDS Integers, Sequences, FiniteSets, TLC

VARIABLES
  thoughtHistory,  \* SequentialThinkingServer.thoughtHistory
  branches,        \* SequentialThinkingServer.branches: branchId -> records
  response,        \* the value returned by the last processThought call
  thoughts,        \* WebUIServer.thoughts
  nodes,           \* WebUIServer.nodes
  links,           \* WebUIServer.links
  nodeMap,         \* WebUIServer.nodeMap (its keys; values alias nodes[i])
  emitted,         \* every message handed to io.emit, in order
  connected,       \* observer -> the server holds an open socket for it
  inbox,           \* observer -> messages sent on the socket, not yet handled
  simulation,      \* observer -> script's simulation is initialised
  nodesData,       \* observer -> mirror node list
  linksData,       \* observer -> mirror link list
  mirrorMap,       \* observer -> keys of the script's nodeMap
  handled          \* observer -> types of the messages it has handled on
                   \*             its current connection, in order (empty
                   \*             while it has no connection)

serverVars == <<thoughtHistory, branches, response, thoughts, nodes, links,
                nodeMap, emitted>>
observerVars == <<connected, inbox, simulation, nodesData, linksData, mirrorMap,
                  handled>>
vars == <<thoughtHistory, branches, response, thoughts, nodes, links, nodeMap,
          emitted, connected, inbox, simulation, nodesData, linksData, mirrorMap,
          handled>>

----------------------------------------------------------------------------
(* Bounds of the model *)

\* accepted records per behaviour
MaxHistory == 3

\* messages on the socket of a page that is checked alone
MaxWire == 3

\* The observers (browser tabs holding a socket.io connection)
Observers == {"o1", "o2"}

----------------------------------------------------------------------------
(* JavaScript values *)

Undefined == <<>>
Mistyped == <<"object", "object">>
Def(v) == <<v>>

IsDef(x) == Len(x) = 1
Min(a, b) == IF a < b THEN a ELSE b

\* Range of a sequence
Range(s) == {s[i] : i \in 1..Len(s)}

\* Number.isInteger(x) && x >= 1 on a field holding a number
IsPositiveInteger(x) == IsDef(x) /\ x[1] >= 1

\* JavaScript truthiness of an optional string / number / boolean field
TruthyString(x) == IsDef(x) /\ x[1] # ""
TruthyNumber(x) == IsDef(x) /\ x[1] # 0
TruthyBoolean(x) == IsDef(x) /\ x[1] = TRUE

----------------------------------------------------------------------------
(* index.ts: SequentialThinkingServer.validateThoughtData *)

\* The untyped input of one tool call: every field in the encoding above.
Input(thought, thoughtNumber, totalThoughts, nextThoughtNeeded, isRevision, revisesThought, branchFromThought, branchId, needsMoreThoughts) ==
  [thought |-> thought, thoughtNumber |-> thoughtNumber,
   totalThoughts |-> totalThoughts, nextThoughtNeeded |-> nextThoughtNeeded,
   isRevision |-> isRevision, revisesThought |-> revisesThought,
   branchFromThought |-> branchFromThought, branchId |-> branchId,
   needsMoreThoughts |-> needsMoreThoughts]

NoError == "ok"

\* Faulty variant of validationError: the type checks alone, without the
\* relational constraint checks
validationErrorTypesOnly(data) ==
  CASE ~TruthyString(data.thought) ->
         "Invalid thought: must be a string"
    [] ~(TruthyNumber(data.thoughtNumber) /\ IsPositiveInteger(data.thoughtNumber)) ->
         "Invalid thoughtNumber: must be a positive integer"
    [] ~(TruthyNumber(data.totalThoughts) /\ IsPositiveInteger(data.totalThoughts)) ->
         "Invalid totalThoughts: must be a positive integer"
    [] ~IsDef(data.nextThoughtNeeded) ->
         "Invalid nextThoughtNeeded: must be a boolean"
    [] data.isRevision # Undefined /\ ~IsDef(data.isRevision) ->
         "Invalid isRevision: must be a boolean if provided"
    [] data.revisesThought # Undefined /\ ~IsPositiveInteger(data.revisesThought) ->
         "Invalid revisesThought: must be a positive integer if provided"
    [] data.branchFromThought # Undefined /\ ~IsPositiveInteger(data.branchFromThought) ->
         "Invalid branchFromThought: must be a positive integer if provided"
    [] data.branchId # Undefined /\ ~IsDef(data.branchId) ->
         "Invalid branchId: must be a string if provided"
    [] data.needsMoreThoughts # Undefined /\ ~IsDef(data.needsMoreThoughts) ->
         "Invalid needsMoreThoughts: must be a boolean if provided"
    [] OTHER -> NoError

\* The message of the first check that throws (without its backquotes),
\* NoError when none does.
validationError(data) ==
  CASE ~TruthyString(data.thought) ->
         "Invalid thought: must be a string"
    [] ~(TruthyNumber(data.thoughtNumber) /\ IsPositiveInteger(data.thoughtNumber)) ->
         "Invalid thoughtNumber: must be a positive integer"
    [] ~(TruthyNumber(data.totalThoughts) /\ IsPositiveInteger(data.totalThoughts)) ->
         "Invalid totalThoughts: must be a positive integer"
    [] ~IsDef(data.nextThoughtNeeded) ->
         "Invalid nextThoughtNeeded: must be a boolean"
    [] data.isRevision = Def(TRUE) /\ ~IsPositiveInteger(data.revisesThought) ->
         "Invalid input: isRevision is true, but revisesThought is missing or not a positive integer."
    [] data.isRevision # Def(TRUE) /\ data.revisesThought # Undefined ->
         "Invalid input: revisesThought is provided, but isRevision is not true."
    [] data.branchId # Undefined /\ ~IsPositiveInteger(data.branchFromThought) ->
         "Invalid input: branchId is provided, but branchFromThought is missing or not a positive integer."
    [] data.isRevision # Undefined /\ ~IsDef(data.isRevision) ->
         "Invalid isRevision: must be a boolean if provided"
    [] data.revisesThought # Undefined /\ ~IsPositiveInteger(data.revisesThought) ->
         "Invalid revisesThought: must be a positive integer if provided"
    [] data.branchFromThought # Undefined /\ ~IsPositiveInteger(data.branchFromThought) ->
         "Invalid branchFromThought: must be a positive integer if provided"
    [] data.branchId # Undefined /\ ~IsDef(data.branchId) ->
         "Invalid branchId: must be a string if provided"
    [] data.needsMoreThoughts # Undefined /\ ~IsDef(data.needsMoreThoughts) ->
         "Invalid needsMoreThoughts: must be a boolean if provided"
    [] OTHER -> NoError

\* The ThoughtData returned when no check throws: the required fields hold
\* their values, the optional ones stay optional.
validateThoughtData(data) ==
  [thought |-> data.thought[1],
   thoughtNumber |-> data.thoughtNumber[1],
   totalThoughts |-> data.totalThoughts[1],
   nextThoughtNeeded |-> data.nextThoughtNeeded[1],
   isRevision |-> data.isRevision,
   revisesThought |-> data.revisesThought,
   branchFromThought |-> data.branchFromThought,
   branchId |-> data.branchId,
   needsMoreThoughts |-> data.needsMoreThoughts]

----------------------------------------------------------------------------
(* webui.ts: WebUIServer, graph derivation *)

\* String(x ?? "N/A") of an optional number
NumberOrNA(x) == IF x = Undefined THEN "N/A" ELSE ToString(x[1])

\* branchId.substring(0, 3)
Substring03(s) == SubSeq(s, 1, Min(3, Len(s)))

\* Faulty variant of getNodeId: the id is the thought number alone, whatever
\* the branch
getNodeIdFlat(thought) == "T" \o ToString(thought.thoughtNumber)

getNodeId(thought) ==
  LET prefix == IF TruthyString(thought.branchId)
                THEN "B" \o thought.branchId[1]
                ELSE "main"
  IN  prefix \o "-T" \o ToString(thought.thoughtNumber)

\* Faulty variant of nodeGroup: branchFromThought is looked at first
nodeGroupBranchFirst(thought) ==
  IF TruthyNumber(thought.branchFromThought) THEN "branch"
  ELSE IF TruthyBoolean(thought.isRevision) THEN "revision"
  ELSE "main"

\* let group = "main"; if (isRevision) ... else if (branchFromThought) ...
nodeGroup(thought) ==
  IF TruthyBoolean(thought.isRevision) THEN "revision"
  ELSE IF TruthyNumber(thought.branchFromThought) THEN "branch"
  ELSE "main"

createD3Node(thought) ==
  [id |-> getNodeId(thought),
   thoughtNumber |-> thought.thoughtNumber,
   group |-> nodeGroup(thought),
   label |-> "T" \o ToString(thought.thoughtNumber)
             \o (IF TruthyString(thought.branchId)
                 THEN " (" \o Substring03(thought.branchId[1]) \o ")"
                 ELSE ""),
   title |-> "Thought " \o ToString(thought.thoughtNumber) \o "/"
             \o ToString(thought.totalThoughts)
             \o "\nBranch: "
             \o (IF thought.branchId = Undefined THEN "main" ELSE thought.branchId[1])
             \o "\nType: " \o nodeGroup(thought)
             \o "\nRevises: " \o NumberOrNA(thought.revisesThought)
             \o "\nFrom: " \o NumberOrNA(thought.branchFromThought)
             \o "\n\n" \o thought.thought]

D3Link(source, target, type, arrow) ==
  [source |-> source, target |-> target, type |-> type,
   id |-> source \o arrow \o target]

\* The backward scan for (i = length - 1; i >= 0; i--): the id of the newest
\* record of ths with the given thoughtNumber, Undefined (null) when none has it.
scanBackward(ths, number) ==
  LET hits == {i \in 1..Len(ths) : ths[i].thoughtNumber = number}
  IN  IF hits = {} THEN Undefined
      ELSE Def(getNodeId(ths[CHOOSE i \in hits : \A j \in hits : j <= i]))

\* Faulty variant of linearLinks: the source node is not looked up in nodeMap
linearLinksUnchecked(newThought, nm) ==
  LET targetNodeId == getNodeId(newThought)
      linearSourceThoughtNumber == newThought.thoughtNumber - 1
      sourceLinearNodeId ==
        getNodeId([newThought EXCEPT !.thoughtNumber = linearSourceThoughtNumber])
  IN  IF linearSourceThoughtNumber > 0
      THEN <<D3Link(sourceLinearNodeId, targetNodeId, "linear", " L> ")>>
      ELSE <<>>

\* 1. Standard Linear Connection
linearLinks(newThought, nm) ==
  LET targetNodeId == getNodeId(newThought)
      linearSourceThoughtNumber == newThought.thoughtNumber - 1
      sourceLinearNodeId ==
        getNodeId([newThought EXCEPT !.thoughtNumber = linearSourceThoughtNumber])
  IN  IF linearSourceThoughtNumber > 0 /\ sourceLinearNodeId \in nm
      THEN <<D3Link(sourceLinearNodeId, targetNodeId, "linear", " L> ")>>
      ELSE <<>>

\* 2. Branch Connection
branchLinks(newThought, ths, nm) ==
  LET targetNodeId == getNodeId(newThought)
      sourceBranchNodeId == scanBackward(ths, newThought.branchFromThought[1])
  IN  IF /\ TruthyNumber(newThought.branchFromThought)
         /\ sourceBranchNodeId # Undefined
         /\ sourceBranchNodeId[1] \in nm
      THEN <<D3Link(sourceBranchNodeId[1], targetNodeId, "branch", " B> ")>>
      ELSE <<>>

\* Faulty variant of revisionLinks: the link runs from the revised node to the
\* revising one
revisionLinksReversed(newThought, ths, nm) ==
  LET targetNodeId == getNodeId(newThought)
      targetRevisionNodeId == scanBackward(ths, newThought.revisesThought[1])
  IN  IF /\ TruthyBoolean(newThought.isRevision)
         /\ TruthyNumber(newThought.revisesThought)
         /\ targetRevisionNodeId # Undefined
         /\ targetRevisionNodeId[1] \in nm
      THEN <<D3Link(targetRevisionNodeId[1], targetNodeId, "revision", " R> ")>>
      ELSE <<>>

\* 3. Revision Connection
revisionLinks(newThought, ths, nm) ==
  LET targetNodeId == getNodeId(newThought)
      targetRevisionNodeId == scanBackward(ths, newThought.revisesThought[1])
  IN  IF /\ TruthyBoolean(newThought.isRevision)
         /\ TruthyNumber(newThought.revisesThought)
         /\ targetRevisionNodeId # Undefined
         /\ targetRevisionNodeId[1] \in nm
      THEN <<D3Link(targetNodeId, targetRevisionNodeId[1], "revision", " R> ")>>
      ELSE <<>>

\* Faulty variant of calculateNewD3Links: the links are computed without
\* looking the target node up in nodeMap first
calculateNewD3LinksUnguarded(newThought, ths, nm) ==
  linearLinks(newThought, nm)
  \o branchLinks(newThought, ths, nm)
  \o revisionLinks(newThought, ths, nm)

\* calculateNewD3Links(newThought), reading this.thoughts (ths, which already
\* ends with newThought) and the keys of this.nodeMap (nm)
calculateNewD3Links(newThought, ths, nm) ==
  IF getNodeId(newThought) \notin nm
  THEN <<>>
  ELSE linearLinks(newThought, nm)
       \o branchLinks(newThought, ths, nm)
       \o revisionLinks(newThought, ths, nm)

\* Faulty variant of refreshNode: the stored node is taken out of the list
refreshNodeDrop(ns, newNode) == SelectSeq(ns, LAMBDA n : n.id # newNode.id)

\* Faulty variant of refreshNode: the stored node is replaced by the new one
refreshNodeReplace(ns, newNode) ==
  [i \in 1..Len(ns) |-> IF ns[i].id = newNode.id THEN newNode ELSE ns[i]]

\* Faulty variant of refreshNode: the node is pushed again
refreshNodePush(ns, newNode) == Append(ns, newNode)

\* The else branch of updateThought: the stored node with newNode's id takes
\* newNode's title and label
refreshNode(ns, newNode) ==
  LET found == {i \in 1..Len(ns) : ns[i].id = newNode.id}
      existingNodeIndex == IF found = {} THEN 0
                           ELSE CHOOSE i \in found : \A j \in found : i <= j
  IN  [i \in 1..Len(ns) |->
         IF i = existingNodeIndex
         THEN [ns[i] EXCEPT !.title = newNode.title, !.label = newNode.label]
         ELSE ns[i]]

\* A message on the wire.  "init" carries the node and link lists; "thoughtAdded"
\* carries { newNode, newLinks } as a one-element node list and the link list.
Message(type, ns, ls) == [type |-> type, nodes |-> ns, links |-> ls]

\* Faulty variant of ioEmit: the message reaches nobody
ioEmitNobody(ib, conn, msg) == ib

\* this.io.emit(msg): one copy to every socket that is connected now
ioEmit(ib, conn, msg) ==
  [o \in DOMAIN ib |-> IF conn[o] THEN Append(ib[o], msg) ELSE ib[o]]

\* Faulty variant of updateThought: the delta is emitted for an id that is
\* already present too
updateThoughtAlwaysEmit(thoughtData) ==
  LET ths == Append(thoughts, thoughtData)
      newNode == createD3Node(thoughtData)
      newLinks == calculateNewD3Links(thoughtData, ths, nodeMap)
      msg == Message("thoughtAdded", <<newNode>>, newLinks)
  IN  /\ thoughts' = ths
      /\ emitted' = Append(emitted, msg)
      /\ inbox' = ioEmit(inbox, connected, msg)
      /\ IF newNode.id \notin nodeMap
         THEN /\ nodes' = Append(nodes, newNode)
              /\ nodeMap' = nodeMap \cup {newNode.id}
              /\ links' = links \o newLinks
         ELSE /\ nodes' = refreshNode(nodes, newNode)
              /\ UNCHANGED <<nodeMap, links>>

\* Faulty variant of updateThought: the links computed for a record are
\* pushed for an id that is already present too
updateThoughtAlwaysPushLinks(thoughtData) ==
  LET ths == Append(thoughts, thoughtData)
      newNode == createD3Node(thoughtData)
      newLinks == calculateNewD3Links(thoughtData, ths, nodeMap)
      msg == Message("thoughtAdded", <<newNode>>, newLinks)
  IN  /\ thoughts' = ths
      /\ links' = links \o newLinks
      /\ IF newNode.id \notin nodeMap
         THEN /\ nodes' = Append(nodes, newNode)
              /\ nodeMap' = nodeMap \cup {newNode.id}
              /\ emitted' = Append(emitted, msg)
              /\ inbox' = ioEmit(inbox, connected, msg)
         ELSE /\ nodes' = refreshNode(nodes, newNode)
              /\ UNCHANGED <<nodeMap, emitted, inbox>>

\* WebUIServer.updateThought(thoughtData)
updateThought(thoughtData) ==
  LET ths == Append(thoughts, thoughtData)
      newNode == createD3Node(thoughtData)
      newLinks == calculateNewD3Links(thoughtData, ths, nodeMap)
      msg == Message("thoughtAdded", <<newNode>>, newLinks)
  IN  /\ thoughts' = ths
      /\ IF newNode.id \notin nodeMap
         THEN /\ nodes' = Append(nodes, newNode)
              /\ nodeMap' = nodeMap \cup {newNode.id}
              /\ links' = links \o newLinks
              /\ emitted' = Append(emitted, msg)
              /\ inbox' = ioEmit(inbox, connected, msg)
         ELSE /\ nodes' = refreshNode(nodes, newNode)
              /\ UNCHANGED <<nodeMap, links, emitted, inbox>>

\* Faulty variant of sendCurrentState: the init carries empty lists
sendCurrentStateEmpty == Message("init", <<>>, <<>>)

\* WebUIServer.sendCurrentState(socket): copies of the two arrays
sendCurrentState == Message("init", nodes, links)

----------------------------------------------------------------------------
(* index.ts: SequentialThinkingServer.processThought *)

\* Faulty variant of raiseTotalThoughts: the estimate is left as given
raiseTotalThoughtsNever(validatedInput) == validatedInput

raiseTotalThoughts(validatedInput) ==
  IF validatedInput.thoughtNumber > validatedInput.totalThoughts
  THEN [validatedInput EXCEPT !.totalThoughts = validatedInput.thoughtNumber]
  ELSE validatedInput

\* Faulty variant of registerBranch: a record with branchFromThought and no
\* branchId is registered too, under the key "undefined"
registerBranchUnnamed(br, validatedInput) ==
  IF TruthyNumber(validatedInput.branchFromThought)
  THEN LET b == IF IsDef(validatedInput.branchId) THEN validatedInput.branchId[1]
                ELSE "undefined"
       IN  [k \in DOMAIN br \cup {b} |->
              IF k = b
              THEN (IF b \in DOMAIN br THEN br[b] ELSE <<>>) \o <<validatedInput>>
              ELSE br[k]]
  ELSE br

\* Faulty variant of registerBranch: no record is registered
registerBranchNever(br, validatedInput) == br

\* this.branches after the record is registered under its branchId
registerBranch(br, validatedInput) ==
  IF TruthyNumber(validatedInput.branchFromThought)
     /\ TruthyString(validatedInput.branchId)
  THEN LET b == validatedInput.branchId[1]
       IN  [k \in DOMAIN br \cup {b} |->
              IF k = b
              THEN (IF b \in DOMAIN br THEN br[b] ELSE <<>>) \o <<validatedInput>>
              ELSE br[k]]
  ELSE br

successPayload(validatedInput, br, history) ==
  [isError |-> FALSE,
   thoughtNumber |-> validatedInput.thoughtNumber,
   totalThoughts |-> validatedInput.totalThoughts,
   nextThoughtNeeded |-> validatedInput.nextThoughtNeeded,
   branches |-> DOMAIN br,
   thoughtHistoryLength |-> Len(history)]

failurePayload(message) ==
  [isError |-> TRUE, error |-> message, status |-> "failed"]

\* Faulty variant of ProcessThought: a valid record whose node id is already
\* in the store is answered with a failure
ProcessThoughtRejectDuplicate(input) ==
  IF validationError(input) # NoError
  THEN /\ response' = failurePayload(validationError(input))
       /\ UNCHANGED <<thoughtHistory, branches, thoughts, nodes, links,
                      nodeMap, emitted>>
       /\ UNCHANGED observerVars
  ELSE LET validatedInput == raiseTotalThoughts(validateThoughtData(input))
       IN  IF getNodeId(validatedInput) \in nodeMap
           THEN /\ response' = failurePayload("Node already exists")
                /\ UNCHANGED <<thoughtHistory, branches, thoughts, nodes, links,
                               nodeMap, emitted>>
                /\ UNCHANGED observerVars
           ELSE /\ thoughtHistory' = Append(thoughtHistory, validatedInput)
                /\ branches' = registerBranch(branches, validatedInput)
                /\ updateThought(validatedInput)
                /\ response' = successPayload(validatedInput, branches', thoughtHistory')
                /\ UNCHANGED <<connected, simulation, nodesData, linksData,
                               mirrorMap, handled>>

\* Faulty variant of ProcessThought: the call waits until every observer has
\* handled what was sent to it
ProcessThoughtWaits(input) ==
  /\ \A o \in Observers : inbox[o] = <<>>
  /\ IF validationError(input) # NoError
     THEN /\ response' = failurePayload(validationError(input))
          /\ UNCHANGED <<thoughtHistory, branches, thoughts, nodes, links,
                         nodeMap, emitted>>
          /\ UNCHANGED observerVars
     ELSE LET validatedInput == raiseTotalThoughts(validateThoughtData(input))
          IN  /\ thoughtHistory' = Append(thoughtHistory, validatedInput)
              /\ branches' = registerBranch(branches, validatedInput)
              /\ updateThought(validatedInput)
              /\ response' = successPayload(validatedInput, branches', thoughtHistory')
              /\ UNCHANGED <<connected, simulation, nodesData, linksData,
                             mirrorMap, handled>>

\* Faulty variant of ProcessThought: the input is pushed on thoughtHistory
\* before it is validated
ProcessThoughtStoreFirst(input) ==
  IF validationError(input) # NoError
  THEN /\ response' = failurePayload(validationError(input))
       /\ thoughtHistory' = Append(thoughtHistory, input)
       /\ UNCHANGED <<branches, thoughts, nodes, links, nodeMap, emitted>>
       /\ UNCHANGED observerVars
  ELSE LET validatedInput == raiseTotalThoughts(validateThoughtData(input))
       IN  /\ thoughtHistory' = Append(thoughtHistory, validatedInput)
           /\ branches' = registerBranch(branches, validatedInput)
           /\ updateThought(validatedInput)
           /\ response' = successPayload(validatedInput, branches', thoughtHistory')
           /\ UNCHANGED <<connected, simulation, nodesData, linksData, mirrorMap,
                          handled>>

\* processThought(input): the catch block answers a validation error
ProcessThought(input) ==
  IF validationError(input) # NoError
  THEN /\ response' = failurePayload(validationError(input))
       /\ UNCHANGED <<thoughtHistory, branches, thoughts, nodes, links,
                      nodeMap, emitted>>
       /\ UNCHANGED observerVars
  ELSE LET validatedInput == raiseTotalThoughts(validateThoughtData(input))
       IN  /\ thoughtHistory' = Append(thoughtHistory, validatedInput)
           /\ branches' = registerBranch(branches, validatedInput)
           /\ updateThought(validatedInput)
           /\ response' = successPayload(validatedInput, branches', thoughtHistory')
           /\ UNCHANGED <<connected, simulation, nodesData, linksData, mirrorMap,
                          handled>>

----------------------------------------------------------------------------
(* webui.ts: the observer (socket handlers of the page script) *)

NodeIds(ns) == {ns[i].id : i \in 1..Len(ns)}
LinkIds(ls) == {ls[i].id : i \in 1..Len(ls)}

\* nodes.forEach(n => { if (!nodeMap.has(n.id)) nodesData.push({...n}) })
RECURSIVE pushNewNodes(_, _)
pushNewNodes(acc, ns) ==
  IF ns = <<>> THEN acc
  ELSE pushNewNodes(IF Head(ns).id \in NodeIds(acc) THEN acc
                    ELSE Append(acc, Head(ns)),
                    Tail(ns))

\* links.forEach(l => { if (nodeMap.has(l.source) && nodeMap.has(l.target)) ... })
RECURSIVE keepAttachedLinks(_, _)
keepAttachedLinks(ls, nm) ==
  IF ls = <<>> THEN <<>>
  ELSE (IF Head(ls).source \in nm /\ Head(ls).target \in nm
        THEN <<Head(ls)>> ELSE <<>>)
       \o keepAttachedLinks(Tail(ls), nm)

\* Faulty variant of pushNewLinks: linkExists is not looked at
RECURSIVE pushNewLinksUnchecked(_, _, _)
pushNewLinksUnchecked(ld, newLinks, nm) ==
  IF newLinks = <<>> THEN ld
  ELSE LET link == Head(newLinks)
       IN  pushNewLinksUnchecked(IF link.source \in nm /\ link.target \in nm
                                 THEN Append(ld, link) ELSE ld,
                                 Tail(newLinks), nm)

\* Faulty variant of pushNewLinks: the ends of the link are not looked up in
\* nodeMap
RECURSIVE pushNewLinksDetached(_, _, _)
pushNewLinksDetached(ld, newLinks, nm) ==
  IF newLinks = <<>> THEN ld
  ELSE LET link == Head(newLinks)
           linkExists == link.id \in LinkIds(ld)
       IN  pushNewLinksDetached(IF ~linkExists THEN Append(ld, link) ELSE ld,
                                Tail(newLinks), nm)

\* newLinks.forEach(link => { if (!linkExists && both ends known) push })
RECURSIVE pushNewLinks(_, _, _)
pushNewLinks(ld, newLinks, nm) ==
  IF newLinks = <<>> THEN ld
  ELSE LET link == Head(newLinks)
           linkExists == link.id \in LinkIds(ld)
       IN  pushNewLinks(IF ~linkExists /\ link.source \in nm /\ link.target \in nm
                        THEN Append(ld, link) ELSE ld,
                        Tail(newLinks), nm)

\* The mirror of one observer
Mirror(nd, ld, nm) == [nodesData |-> nd, linksData |-> ld, nodeMap |-> nm]

\* Faulty variant of applyInit: the lists and the map are not emptied first
applyInitMerge(mirror, msg) ==
  LET nd == pushNewNodes(mirror.nodesData, msg.nodes)
  IN  Mirror(nd, mirror.linksData \o keepAttachedLinks(msg.links, NodeIds(nd)),
             NodeIds(nd))

\* socket.on("init"): the mirror is rebuilt from the message
applyInit(mirror, msg) ==
  LET nd == pushNewNodes(<<>>, msg.nodes)
  IN  Mirror(nd, keepAttachedLinks(msg.links, NodeIds(nd)), NodeIds(nd))

\* socket.on("thoughtAdded"), past the simulation check
applyDelta(mirror, msg) ==
  LET newNode == msg.nodes[1]
      nd == IF newNode.id \notin mirror.nodeMap
            THEN Append(mirror.nodesData, newNode)
            ELSE refreshNode(mirror.nodesData, newNode)
      nm == mirror.nodeMap \cup {newNode.id}
  IN  Mirror(nd, pushNewLinks(mirror.linksData, msg.links, nm), nm)

mirrorOf(o) == Mirror(nodesData[o], linksData[o], mirrorMap[o])

\* Faulty variant of Connect: the page empties its mirror when it connects
ConnectDiscard(o) ==
  /\ ~connected[o]
  /\ connected' = [connected EXCEPT ![o] = TRUE]
  /\ inbox' = [inbox EXCEPT ![o] = <<sendCurrentState>>]
  /\ simulation' = [simulation EXCEPT ![o] = TRUE]
  /\ handled' = [handled EXCEPT ![o] = <<>>]
  /\ nodesData' = [nodesData EXCEPT ![o] = <<>>]
  /\ linksData' = [linksData EXCEPT ![o] = <<>>]
  /\ mirrorMap' = [mirrorMap EXCEPT ![o] = {}]
  /\ UNCHANGED serverVars

\* io.on("connection") on the server, socket.on("connect") in the page: the
\* server sends the snapshot; the page initialises the graph (the container
\* element is taken to exist) and keeps the mirror it has.
Connect(o) ==
  /\ ~connected[o]
  /\ connected' = [connected EXCEPT ![o] = TRUE]
  /\ inbox' = [inbox EXCEPT ![o] = <<sendCurrentState>>]
  /\ simulation' = [simulation EXCEPT ![o] = TRUE]
  /\ handled' = [handled EXCEPT ![o] = <<>>]
  /\ UNCHANGED <<nodesData, linksData, mirrorMap>>
  /\ UNCHANGED serverVars

\* The socket closes: what was still on the wire is lost; neither side
\* changes the graph or the mirror.
Disconnect(o) ==
  /\ connected[o]
  /\ connected' = [connected EXCEPT ![o] = FALSE]
  /\ inbox' = [inbox EXCEPT ![o] = <<>>]
  /\ handled' = [handled EXCEPT ![o] = <<>>]
  /\ UNCHANGED <<simulation, nodesData, linksData, mirrorMap>>
  /\ UNCHANGED serverVars

\* The page handles the next message of its socket.
Deliver(o) ==
  /\ inbox[o] # <<>>
  /\ LET msg == Head(inbox[o])
         m == IF msg.type = "init" THEN applyInit(mirrorOf(o), msg)
              ELSE IF simulation[o] THEN applyDelta(mirrorOf(o), msg)
              ELSE mirrorOf(o)
     IN  /\ nodesData' = [nodesData EXCEPT ![o] = m.nodesData]
         /\ linksData' = [linksData EXCEPT ![o] = m.linksData]
         /\ mirrorMap' = [mirrorMap EXCEPT ![o] = m.nodeMap]
  /\ inbox' = [inbox EXCEPT ![o] = Tail(inbox[o])]
  /\ handled' = [handled EXCEPT ![o] = Append(@, Head(inbox[o]).type)]
  /\ UNCHANGED <<connected, simulation>>
  /\ UNCHANGED serverVars

----------------------------------------------------------------------------
(* Inputs *)

NoResponse == [isError |-> FALSE, status |-> "none"]

\* A main-line record, a branch record, a revision record
MainInput(n) ==
  Input(Def("t"), Def(n), Def(1), Def(TRUE),
        Undefined, Undefined, Undefined, Undefined, Undefined)
BranchInput(n, from, b) ==
  Input(Def("t"), Def(n), Def(1), Def(TRUE),
        Undefined, Undefined, Def(from), b, Undefined)
RevisionInput(n, revises) ==
  Input(Def("t"), Def(n), Def(1), Def(TRUE),
        Def(TRUE), Def(revises), Undefined, Undefined, Undefined)
BranchRevisionInput(n, from, b, revises) ==
  Input(Def("t"), Def(n), Def(1), Def(TRUE),
        Def(TRUE), Def(revises), Def(from), b, Undefined)

\* The rejection boundary: thoughtNumber 0, isRevision without revisesThought,
\* branchId without branchFromThought
RejectedInputs ==
  {Input(Def("t"), Def(0), Def(1), Def(TRUE),
         Undefined, Undefined, Undefined, Undefined, Undefined),
   Input(Def("t"), Def(1), Def(1), Def(TRUE),
         Def(TRUE), Undefined, Undefined, Undefined, Undefined),
   Input(Def("t"), Def(1), Def(1), Def(TRUE),
         Undefined, Undefined, Undefined, Def("x"), Undefined)}

ThoughtNumbers == {1, 2}

\* Inputs of the whole system (ingestion with observers)
Inputs ==
  {MainInput(n) : n \in ThoughtNumbers}
  \cup {BranchInput(2, 1, Def("B1")), RevisionInput(2, 1)}
  \cup {Input(Def("t"), Def(0), Def(1), Def(TRUE),
              Undefined, Undefined, Undefined, Undefined, Undefined)}

\* Inputs of the graph derivation: every shape of record over two thought
\* numbers, with resolvable, unresolvable and self references, a branch id,
\* the empty branch id and branchFromThought without branchId
GraphInputs ==
  {MainInput(n) : n \in ThoughtNumbers}
  \cup {RevisionInput(n, k) : n \in ThoughtNumbers, k \in ThoughtNumbers}
  \cup {BranchInput(n, k, Def("B1")) : n \in ThoughtNumbers, k \in ThoughtNumbers}
  \cup {BranchInput(n, 1, Undefined) : n \in ThoughtNumbers}
  \cup {BranchInput(n, 1, Def("")) : n \in ThoughtNumbers}
  \cup {BranchRevisionInput(n, 1, Def("B1"), 1) : n \in ThoughtNumbers}
  \cup RejectedInputs

----------------------------------------------------------------------------
(* Specifications *)

Init ==
  /\ thoughtHistory = <<>>
  /\ branches = <<>>
  /\ response = NoResponse
  /\ thoughts = <<>>
  /\ nodes = <<>>
  /\ links = <<>>
  /\ nodeMap = {}
  /\ emitted = <<>>
  /\ connected = [o \in Observers |-> FALSE]
  /\ inbox = [o \in Observers |-> <<>>]
  /\ simulation = [o \in Observers |-> FALSE]
  /\ nodesData = [o \in Observers |-> <<>>]
  /\ linksData = [o \in Observers |-> <<>>]
  /\ mirrorMap = [o \in Observers |-> {}]
  /\ handled = [o \in Observers |-> <<>>]

\* A call is taken while the history is below the bound; a call that is
\* rejected is taken at any time.
Admitted(input) ==
  validationError(input) # NoError \/ Len(thoughtHistory) < MaxHistory

Ingest == \E input \in Inputs : Admitted(input) /\ ProcessThought(input)
ObserverConnects == \E o \in Observers : Connect(o)
ObserverDisconnects == \E o \in Observers : Disconnect(o)
ObserverReceives == \E o \in Observers : Deliver(o)

\* The whole system: ingestion, and observers coming, going and receiving
Next == Ingest \/ ObserverConnects \/ ObserverDisconnects \/ ObserverReceives
Spec == Init /\ [][Next]_vars

\* Graph derivation alone, over the wider input set
IngestGraph == \E input \in GraphInputs : Admitted(input) /\ ProcessThought(input)
NextGraph == IngestGraph
SpecGraph == Init /\ [][NextGraph]_vars

\* The scenario of the specification's section 8: main thoughts 1, 2, 3, then
\* thought 4 branching from 2 as "B1", then main thought 5 revising 3, then a
\* sixth record; observers come and go freely.
Scenario ==
  <<MainInput(1), MainInput(2), MainInput(3),
    BranchInput(4, 2, Def("B1")), RevisionInput(5, 3), MainInput(6)>>

IngestScenario ==
  /\ Len(thoughtHistory) < Len(Scenario)
  /\ ProcessThought(Scenario[Len(thoughtHistory) + 1])
NextScenario ==
  IngestScenario \/ ObserverConnects \/ ObserverDisconnects \/ ObserverReceives
SpecScenario == Init /\ [][NextScenario]_vars

----------------------------------------------------------------------------
(* Claims *)

\* The branch context of a record as getNodeId reads it: an empty branchId
\* is falsy and counts as the main line
BranchContext(thought) ==
  IF TruthyString(thought.branchId) THEN thought.branchId ELSE Undefined

\* An observer that has handled everything sent on its current connection
CaughtUp(o) == connected[o] /\ handled[o] # <<>> /\ inbox[o] = <<>>

\* C1: whenever an observer has applied, in order, the init and every delta
\* sent on its current connection, its mirror has the node ids and the link
\* ids of the server's snapshot.
C1_MirrorEqualsSnapshot ==
  \A o \in Observers :
    CaughtUp(o) =>
      /\ NodeIds(nodesData[o]) = NodeIds(nodes)
      /\ LinkIds(linksData[o]) = LinkIds(links)

\* C1 witness: an observer that got an empty init and then built a mirror of
\* two nodes from deltas alone
C1_Witness ==
  \E o \in Observers :
    /\ CaughtUp(o)
    /\ Len(nodesData[o]) = 2
    /\ handled[o] = <<"init", "thoughtAdded", "thoughtAdded">>

\* C2: the snapshot holds exactly one node per node id of the accepted
\* records: no id twice, every record's id present, no other id.
C2_OneNodePerId ==
  /\ \A i, j \in 1..Len(nodes) : nodes[i].id = nodes[j].id => i = j
  /\ NodeIds(nodes) = {getNodeId(thoughtHistory[i]) : i \in 1..Len(thoughtHistory)}

\* C2 witness: three accepted records, two of them with the same id
C2_Witness == Len(thoughtHistory) = 3 /\ Len(nodes) = 2

\* C3 as stated: two accepted records have the same node id exactly when they
\* have the same thoughtNumber and the same branchId (or both none).
C3_IdentityByBranchId ==
  \A i, j \in 1..Len(thoughts) :
    (getNodeId(thoughts[i]) = getNodeId(thoughts[j]))
      <=> (/\ thoughts[i].thoughtNumber = thoughts[j].thoughtNumber
           /\ thoughts[i].branchId = thoughts[j].branchId)

\* C3 amended: two accepted records have the same node id exactly when they
\* have the same thoughtNumber and the same branch context, an empty branchId
\* being the main line; a record with a non-empty branchId never shares an id
\* with a main-line record.
C3_IdentityByContext ==
  \A i, j \in 1..Len(thoughts) :
    (getNodeId(thoughts[i]) = getNodeId(thoughts[j]))
      <=> (/\ thoughts[i].thoughtNumber = thoughts[j].thoughtNumber
           /\ BranchContext(thoughts[i]) = BranchContext(thoughts[j]))

\* C3 witness: the same thought number on the main line, on branch "B1" and
\* with the empty branchId
C3_Witness ==
  \E i, j, k \in 1..Len(thoughts) :
    /\ thoughts[i].thoughtNumber = thoughts[j].thoughtNumber
    /\ thoughts[i].thoughtNumber = thoughts[k].thoughtNumber
    /\ thoughts[i].branchId = Undefined
    /\ thoughts[j].branchId = Def("B1")
    /\ thoughts[k].branchId = Def("")

----------------------------------------------------------------------------
(* The accepted records, read as the history of the graph *)

RecordId(i) == getNodeId(thoughts[i])

\* Record i was the first with its node id: its node was new when ingested
FirstWithId(i) == \A j \in 1..(i - 1) : RecordId(j) # RecordId(i)

\* Some record ingested before record i has the node id
ExistedBefore(id, i) == \E j \in 1..(i - 1) : RecordId(j) = id

\* The id of thoughtNumber - 1 in the branch context of record i
PredecessorId(i) ==
  getNodeId([thoughts[i] EXCEPT !.thoughtNumber = thoughts[i].thoughtNumber - 1])

\* Some record ingested before record i has the thought number
NumberedBefore(number, i) ==
  \E j \in 1..(i - 1) : thoughts[j].thoughtNumber = number

\* The node of the most recent record before record i with the thought number
ResolvedBefore(number, i) ==
  LET hits == {j \in 1..(i - 1) : thoughts[j].thoughtNumber = number}
  IN  RecordId(CHOOSE j \in hits : \A k \in hits : k <= j)

LinksOfType(type) == {k \in 1..Len(links) : links[k].type = type}

\* Every link carried by an emitted delta
EmittedLinks == UNION {Range(emitted[k].links) : k \in 1..Len(emitted)}

\* The link from source to target of the type is in the snapshot
InSnapshot(source, target, type) ==
  \E l \in Range(links) : l.source = source /\ l.target = target /\ l.type = type

\* The delta emitted for the node carries the link from source to target
InDeltaOf(nodeId, source, target, type) ==
  \E k \in 1..Len(emitted) :
    /\ emitted[k].nodes[1].id = nodeId
    /\ \E l \in Range(emitted[k].links) :
         l.source = source /\ l.target = target /\ l.type = type

\* C4: Scenario A: after main thoughts 1, 2, 3 the snapshot has 3 nodes and
\* exactly 2 links, both linear: thought 1 -> thought 2, thought 2 -> thought 3.
C4_ScenarioA ==
  Len(thoughts) = 3 =>
    /\ Len(nodes) = 3
    /\ Len(links) = 2
    /\ InSnapshot(RecordId(1), RecordId(2), "linear")
    /\ InSnapshot(RecordId(2), RecordId(3), "linear")

\* C5: the node id of a record with branchId b and thoughtNumber n is "b-n",
\* that of a record without branchId is "main-n"; after Scenario A, thought 4
\* branching from 2 as "B1" adds the node "B1-4" and a branch link from
\* "main-2".
C5_NodeIdStrings ==
  /\ \A i \in 1..Len(thoughts) :
       RecordId(i) =
         (IF thoughts[i].branchId # Undefined THEN thoughts[i].branchId[1]
          ELSE "main") \o "-" \o ToString(thoughts[i].thoughtNumber)
  /\ Len(thoughts) >= 4 =>
       /\ "B1-4" \in NodeIds(nodes)
       /\ InSnapshot("main-2", "B1-4", "branch")

C7_LinearIffPredecessor ==
  \A i \in 1..Len(thoughts) :
    (/\ thoughts[i].branchFromThought = Undefined
     /\ thoughts[i].thoughtNumber > 1
     /\ FirstWithId(i))
    => LET into == {l \in Range(links) :
                      l.type = "linear" /\ l.target = RecordId(i)}
       IN  /\ (into # {}) <=> ExistedBefore(PredecessorId(i), i)
           /\ \A l \in into : l.source = PredecessorId(i)

\* C8: for every record with branchFromThought = k where an earlier record
\* has thoughtNumber k, the snapshot holds the branch link from the node the
\* reference resolves to into the record's node, and the delta of that
\* ingestion carries it.
C8_BranchLink ==
  \A i \in 1..Len(thoughts) :
    (/\ thoughts[i].branchFromThought # Undefined
     /\ NumberedBefore(thoughts[i].branchFromThought[1], i))
    => LET source == ResolvedBefore(thoughts[i].branchFromThought[1], i)
       IN  /\ InSnapshot(source, RecordId(i), "branch")
           /\ InDeltaOf(RecordId(i), source, RecordId(i), "branch")

\* C9: for every record with isRevision and revisesThought = k where an
\* earlier record has thoughtNumber k, the snapshot holds the revision link
\* from the record's node to the node the reference resolves to; no revision
\* link has a revising record's node as its target and the revised node as
\* its source.
C9_RevisionLink ==
  \A i \in 1..Len(thoughts) :
    (/\ thoughts[i].isRevision = Def(TRUE)
     /\ thoughts[i].revisesThought # Undefined
     /\ NumberedBefore(thoughts[i].revisesThought[1], i))
    => LET target == ResolvedBefore(thoughts[i].revisesThought[1], i)
       IN  /\ InSnapshot(RecordId(i), target, "revision")
           /\ target # RecordId(i) => ~InSnapshot(target, RecordId(i), "revision")

\* C10: the link census of the snapshot: as many linear links as records
\* without branchFromThought, with thoughtNumber > 1 and an existing
\* same-context predecessor; as many branch links as records with a
\* resolvable branchFromThought; as many revision links as records with
\* isRevision and a resolvable revisesThought.
C10_LinkCensus ==
  /\ Cardinality(LinksOfType("linear")) =
       Cardinality({i \in 1..Len(thoughts) :
                      /\ thoughts[i].branchFromThought = Undefined
                      /\ thoughts[i].thoughtNumber > 1
                      /\ ExistedBefore(PredecessorId(i), i)})
  /\ Cardinality(LinksOfType("branch")) =
       Cardinality({i \in 1..Len(thoughts) :
                      /\ thoughts[i].branchFromThought # Undefined
                      /\ NumberedBefore(thoughts[i].branchFromThought[1], i)})
  /\ Cardinality(LinksOfType("revision")) =
       Cardinality({i \in 1..Len(thoughts) :
                      /\ thoughts[i].isRevision = Def(TRUE)
                      /\ thoughts[i].revisesThought # Undefined
                      /\ NumberedBefore(thoughts[i].revisesThought[1], i)})

\* C11: the reconnect scenario.  An observer that connects after the first
\* five records of the scenario (main 1, 2, 3, thought 4 branching from 2 as
\* "B1", thought 5 revising 3) is sent exactly one init, of 5 nodes and 3
\* links; the sixth record then adds exactly one delta of one node to its
\* socket, and once the observer has handled both, its mirror holds all 6
\* nodes and the links of the snapshot, the 3 of the init among them.
C11_ReconnectScenario ==
  \A o \in Observers :
    /\ (/\ connected[o]
        /\ handled[o] = <<>>
        /\ inbox[o] # <<>>
        /\ Len(inbox[o][1].nodes) = 5)
       => /\ inbox[o][1].type = "init"
          /\ Len(inbox[o][1].links) = 3
          /\ Len(inbox[o]) = 1 + (Len(thoughts) - 5)
          /\ \A k \in 2..Len(inbox[o]) :
               /\ inbox[o][k].type = "thoughtAdded"
               /\ Len(inbox[o][k].nodes) = 1
    /\ (CaughtUp(o) /\ Len(thoughts) = 6)
       => /\ Len(nodesData[o]) = 6
          /\ LinkIds(linksData[o]) = LinkIds(links)
          /\ Len(linksData[o]) >= 3

----------------------------------------------------------------------------
(* Validation alone: one call on a fresh server *)

\* What a caller may put in a field: nothing, a value of the declared type
\* (falsy or truthy), or a value of another type
ThoughtValues == {Undefined, Def(""), Def("t"), Mistyped}
BranchIdValues == {Undefined, Def(""), Def("x"), Mistyped}
CountValues == {Undefined, Def(0), Def(1), Def(2), Mistyped}
ReferenceValues == {Undefined, Def(0), Def(1), Mistyped}
BooleanValues == {Undefined, Def(TRUE), Def(FALSE), Mistyped}

\* The four required fields: every combination of valid values, and every
\* value of each field next to valid values of the other three
RequiredFields ==
  {<<Def("t"), n, total, next>> :
     n \in {Def(1), Def(2), Def(3)}, total \in {Def(1), Def(2)},
     next \in {Def(TRUE), Def(FALSE)}}
  \cup {<<t, Def(1), Def(1), Def(TRUE)>> : t \in ThoughtValues}
  \cup {<<Def("t"), n, Def(1), Def(TRUE)>> : n \in CountValues}
  \cup {<<Def("t"), Def(1), total, Def(TRUE)>> : total \in CountValues}
  \cup {<<Def("t"), Def(1), Def(1), next>> : next \in BooleanValues}

\* Every combination of values of the five optional fields with each of them
ValidationInputs ==
  {Input(req[1], req[2], req[3], req[4], isRev, revises, from, b, more) :
     req \in RequiredFields, isRev \in BooleanValues,
     revises \in ReferenceValues, from \in ReferenceValues,
     b \in BranchIdValues, more \in BooleanValues}

IngestValidate ==
  \E input \in ValidationInputs : response = NoResponse /\ ProcessThought(input)
NextValidate == IngestValidate
SpecValidate == Init /\ [][NextValidate]_vars

\* The constraints on a record of thoughtHistory
WellFormed(r) ==
  /\ r.thought # ""
  /\ r.thoughtNumber >= 1
  /\ r.totalThoughts >= 1
  /\ r.isRevision = Def(TRUE) => IsPositiveInteger(r.revisesThought)
  /\ r.revisesThought # Undefined => r.isRevision = Def(TRUE)
  /\ r.branchId # Undefined => IsPositiveInteger(r.branchFromThought)

\* C12: every record processThought appends to thoughtHistory has a
\* non-empty thought, thoughtNumber and totalThoughts >= 1, a positive
\* revisesThought when isRevision is true, isRevision true when revisesThought
\* is present, and a positive branchFromThought when branchId is present; a
\* call with isRevision true and no revisesThought, with a branchId and no
\* branchFromThought, or with thoughtNumber 0 is answered with a failure and
\* appends nothing.
C12_AcceptedRecordsWellFormed ==
  [][/\ \A i \in 1..Len(thoughtHistory') : WellFormed(thoughtHistory'[i])
     /\ \A input \in RejectedInputs :
          ProcessThought(input)
            => response'.isError /\ thoughtHistory' = thoughtHistory]_vars

\* C12 witness: an accepted record that is a revision and carries a branchId
C12_Witness ==
  \E i \in 1..Len(thoughtHistory) :
    /\ thoughtHistory[i].isRevision = Def(TRUE)
    /\ thoughtHistory[i].revisesThought = Def(1)
    /\ thoughtHistory[i].branchId = Def("x")
    /\ thoughtHistory[i].branchFromThought = Def(1)

----------------------------------------------------------------------------
(* Claims on processThought and the broadcasts *)

\* The step is a processThought call answered with a failure.  (Only
\* processThought writes response; a call that repeats the failure before it
\* changes nothing at all.)
Rejects == response' # response /\ response'.isError

\* The step is a processThought call that appended a record
Accepts == Len(thoughtHistory') = Len(thoughtHistory) + 1

\* C13: a processThought call that is answered with a failure leaves
\* thoughtHistory, the branch registry, WebUIServer's thoughts, nodes, links
\* and nodeMap and every observer's mirror as they were, and puts no message
\* on any socket.
C13_RejectionHasNoSideEffects ==
  [][Rejects =>
       /\ UNCHANGED <<thoughtHistory, branches, thoughts, nodes, links, nodeMap>>
       /\ UNCHANGED <<nodesData, linksData, mirrorMap>>
       /\ UNCHANGED <<inbox, emitted>>]_vars

\* C13 witness: a call was rejected after a record had been accepted and
\* while an observer with a non-empty mirror was connected
C13_Witness ==
  /\ response.isError
  /\ Len(thoughtHistory) >= 1
  /\ \E o \in Observers : connected[o] /\ Len(nodesData[o]) >= 1

Max(a, b) == IF a > b THEN a ELSE b

\* The call that stores the record r when made with totalThoughts = total
\* (every other field of the call is kept by the record)
CallOf(r, total) ==
  Input(Def(r.thought), Def(r.thoughtNumber), total, Def(r.nextThoughtNeeded),
        r.isRevision, r.revisesThought, r.branchFromThought, r.branchId,
        r.needsMoreThoughts)

\* C14: the totalThoughts stored in thoughtHistory and reported in the
\* success payload of an accepted call is the larger of the call's
\* totalThoughts and thoughtNumber, and every stored record has
\* thoughtNumber <= totalThoughts.
C14_TotalThoughtsRaised ==
  [][Accepts =>
       LET r == thoughtHistory'[Len(thoughtHistory')]
       IN  /\ \A i \in 1..Len(thoughtHistory') :
                thoughtHistory'[i].thoughtNumber <= thoughtHistory'[i].totalThoughts
           /\ \E total \in CountValues :
                validationError(CallOf(r, total)) = NoError
                /\ ProcessThought(CallOf(r, total))
           /\ \A total \in CountValues :
                (validationError(CallOf(r, total)) = NoError
                 /\ ProcessThought(CallOf(r, total)))
                => /\ r.totalThoughts = Max(total[1], r.thoughtNumber)
                   /\ response'.totalThoughts = Max(total[1], r.thoughtNumber)]_vars

\* C14 witness: a call with thoughtNumber 3, above every totalThoughts a
\* call is made with, was accepted and answered with totalThoughts 3
C14_Witness ==
  /\ thoughtHistory # <<>>
  /\ thoughtHistory[1].thoughtNumber = 3
  /\ thoughtHistory[1].totalThoughts = 3
  /\ ~response.isError
  /\ response.totalThoughts = 3

\* The types of the messages sent to the observer on its current connection,
\* in the order sent: those it has handled, then those still on the socket
ConnectionLog(o) ==
  handled[o] \o [i \in 1..Len(inbox[o]) |-> inbox[o][i].type]

\* C15: on each connection the observer is sent exactly one init, before
\* every delta of that connection, and that init carries the server's node
\* and link lists as they are when the connection is made.
C15_OneInitPerConnection ==
  [][\A o \in Observers :
       /\ connected'[o] =>
            LET log == ConnectionLog(o)'
            IN  /\ log # <<>>
                /\ log[1] = "init"
                /\ \A i \in 2..Len(log) : log[i] = "thoughtAdded"
       /\ (~connected[o] /\ connected'[o]) =>
            inbox'[o] = <<[type |-> "init", nodes |-> nodes, links |-> links]>>]_vars

\* C15 witness: an observer connected to a server holding nodes, and a delta
\* was sent behind the init it has not handled yet
C15_Witness ==
  \E o \in Observers :
    /\ connected[o]
    /\ handled[o] = <<>>
    /\ Len(inbox[o]) = 2
    /\ Len(inbox[o][1].nodes) >= 1

\* The record appended by an accepting step
Accepted == thoughtHistory'[Len(thoughtHistory')]

\* The step puts exactly one message on the socket of o, behind those already
\* there: a thoughtAdded carrying the node of the accepted record
OneDeltaSentTo(o) ==
  /\ Len(inbox'[o]) = Len(inbox[o]) + 1
  /\ SubSeq(inbox'[o], 1, Len(inbox[o])) = inbox[o]
  /\ inbox'[o][Len(inbox'[o])].type = "thoughtAdded"
  /\ inbox'[o][Len(inbox'[o])].nodes = <<createD3Node(Accepted)>>

\* C16 as stated: every accepted call, one whose node id is already in the
\* store included, sends exactly one delta to every observer connected at
\* that moment; a rejected call sends none.
C16_DeltaPerAcceptedRecord ==
  [][/\ Accepts =>
          \A o \in Observers :
            IF connected[o] THEN OneDeltaSentTo(o) ELSE inbox'[o] = inbox[o]
     /\ Rejects => inbox' = inbox]_vars

\* C16 amended: an accepted call whose node id is not yet in the store sends
\* exactly one delta, carrying the new node, to every observer connected at
\* that moment and nothing to the others; an accepted call whose node id is
\* already in the store sends nothing to anyone, and neither does a rejected
\* call.
C16_DeltaPerNewNode ==
  [][/\ Accepts =>
          \A o \in Observers :
            IF connected[o] /\ getNodeId(Accepted) \notin nodeMap
            THEN OneDeltaSentTo(o)
            ELSE inbox'[o] = inbox[o]
     /\ Rejects => inbox' = inbox]_vars

\* C16 witness: an observer connected to the empty server; of the three
\* records accepted since, two had a new node id and one had not, and two
\* deltas are behind its init
C16_Witness ==
  \E o \in Observers :
    /\ connected[o]
    /\ handled[o] = <<>>
    /\ Len(inbox[o]) = 3
    /\ inbox[o][1].nodes = <<>>
    /\ Len(thoughtHistory) = 3
    /\ Len(nodes) = 2

\* C17: an accepted call whose node id is already in the store adds no node
\* (the node count, the node ids and nodeMap stay as they were), sends nothing
\* to any observer, and is answered with the success payload.
C17_DuplicateIdAddsNothing ==
  [][(Accepts /\ getNodeId(Accepted) \in nodeMap) =>
       /\ Len(nodes') = Len(nodes)
       /\ NodeIds(nodes') = NodeIds(nodes)
       /\ nodeMap' = nodeMap
       /\ UNCHANGED <<inbox, emitted>>
       /\ ~response'.isError
       /\ response'.thoughtNumber = Accepted.thoughtNumber
       /\ response'.thoughtHistoryLength = Len(thoughtHistory')]_vars

\* C17 witness: an observer saw the delta of the first record; the second
\* record had the same node id, was answered with success and sent nothing
C17_Witness ==
  /\ Len(thoughtHistory) = 2
  /\ Len(nodes) = 1
  /\ ~response.isError
  /\ response.thoughtHistoryLength = 2
  /\ \E o \in Observers :
       /\ connected[o]
       /\ inbox[o] = <<>>
       /\ handled[o] = <<"init", "thoughtAdded">>

----------------------------------------------------------------------------
(* The page script alone: a connected page and the messages on its socket,
   which a network may deliver more than once or in another order *)

\* The records of a server that accepted main thoughts 1 and 2 and then
\* main thought 3 revising thought 1
WireRecords ==
  <<raiseTotalThoughts(validateThoughtData(MainInput(1))),
    raiseTotalThoughts(validateThoughtData(MainInput(2))),
    raiseTotalThoughts(validateThoughtData(RevisionInput(3, 1)))>>

WireNode(k) == createD3Node(WireRecords[k])

\* The links of record k as calculateNewD3Links builds them from the first
\* k records when the nodes of those records are in nodeMap
WireLinks(k) ==
  calculateNewD3Links(WireRecords[k], SubSeq(WireRecords, 1, k),
                      {WireNode(i).id : i \in 1..k})

RECURSIVE WireLinksUpTo(_)
WireLinksUpTo(k) == IF k = 0 THEN <<>> ELSE WireLinksUpTo(k - 1) \o WireLinks(k)

\* { newNode, newLinks } of record k; { nodes, links } after k records
WireDelta(k) == Message("thoughtAdded", <<WireNode(k)>>, WireLinks(k))
WireInit(k) == Message("init", [i \in 1..k |-> WireNode(i)], WireLinksUpTo(k))

WireMessages ==
  {WireDelta(k) : k \in 1..Len(WireRecords)}
  \cup {WireInit(k) : k \in 0..Len(WireRecords)}

WireSequences == UNION {[1..n -> WireMessages] : n \in 0..MaxWire}

\* One page has connected (its connect handler has initialised the graph)
\* and its socket holds a sequence of messages; the server side is idle.
InitWire ==
  /\ thoughtHistory = <<>>
  /\ branches = <<>>
  /\ response = NoResponse
  /\ thoughts = <<>>
  /\ nodes = <<>>
  /\ links = <<>>
  /\ nodeMap = {}
  /\ emitted = <<>>
  /\ \E page \in Observers, ms \in WireSequences :
       /\ connected = [o \in Observers |-> o = page]
       /\ simulation = [o \in Observers |-> o = page]
       /\ inbox = [o \in Observers |-> IF o = page THEN ms ELSE <<>>]
  /\ nodesData = [o \in Observers |-> <<>>]
  /\ linksData = [o \in Observers |-> <<>>]
  /\ mirrorMap = [o \in Observers |-> {}]
  /\ handled = [o \in Observers |-> <<>>]

NextWire == ObserverReceives
SpecWire == InitWire /\ [][NextWire]_vars

\* The step is the page of o handling the first message on its socket
Handles(o) ==
  /\ inbox[o] # <<>>
  /\ inbox'[o] = Tail(inbox[o])
  /\ handled'[o] = Append(handled[o], Head(inbox[o]).type)

\* The mirror after the messages of ms are handled in order
RECURSIVE applyAll(_, _)
applyAll(mirror, ms) ==
  IF ms = <<>> THEN mirror
  ELSE applyAll(IF Head(ms).type = "init" THEN applyInit(mirror, Head(ms))
                ELSE applyDelta(mirror, Head(ms)),
                Tail(ms))

\* Two mirrors with the same node ids and link ids, each as often
SameEntries(m1, m2) ==
  /\ NodeIds(m1.nodesData) = NodeIds(m2.nodesData)
  /\ LinkIds(m1.linksData) = LinkIds(m2.linksData)
  /\ Len(m1.nodesData) = Len(m2.nodesData)
  /\ Len(m1.linksData) = Len(m2.linksData)

\* C18: when the page has handled a thoughtAdded message, handling the same
\* message once more leaves the mirror with the same node ids and link ids
\* and no further entry in nodesData or linksData.
C18_ApplyDeltaIdempotent ==
  [][\A o \in Observers :
       (Handles(o) /\ Head(inbox[o]).type = "thoughtAdded") =>
         SameEntries(applyDelta(mirrorOf(o)', Head(inbox[o])), mirrorOf(o)')]_vars

\* C18 witness: the page handled three deltas of records 1 and 2, one of
\* them twice, and holds two nodes and the one link between them
C18_Witness ==
  \E o \in Observers :
    /\ handled[o] = <<"thoughtAdded", "thoughtAdded", "thoughtAdded">>
    /\ Len(nodesData[o]) = 2
    /\ linksData[o] = WireLinks(2)

\* The deltas of the records after the first j, in the order emitted
EmittedAfter(j, n) == [i \in 1..n |-> WireDelta(j + i)]

C20_InitReplacesMirror ==
  [][\A o \in Observers :
       (Handles(o) /\ Head(inbox[o]).type = "init") =>
         LET msg == Head(inbox[o])
         IN  /\ NodeIds(nodesData'[o]) = NodeIds(msg.nodes)
             /\ mirrorMap'[o] = NodeIds(msg.nodes)
             /\ Len(nodesData'[o]) = Len(msg.nodes)
             /\ linksData'[o] = msg.links]_vars

\* C20 witness: a page that held a node, from a delta, handled the init of an
\* empty server and holds nothing
C20_Witness ==
  \E o \in Observers :
    /\ handled[o] = <<"init", "thoughtAdded", "init">>
    /\ nodesData[o] = <<>>
    /\ linksData[o] = <<>>
    /\ mirrorMap[o] = {}

----------------------------------------------------------------------------
(* Claims on reconnection, references and the store *)

\* The phase of an observer's connection
Phase(o) ==
  IF ~connected[o] THEN "Disconnected"
  ELSE IF handled[o] = <<>> THEN "Connected"
  ELSE IF handled[o] = <<"init">> THEN "Synced"
  ELSE "Live"

Unresolved(i, field) ==
  field # Undefined /\ ~NumberedBefore(field[1], i)

\* Record i names, in the field, a thought number of an earlier record
Resolves(i, field) ==
  field # Undefined /\ NumberedBefore(field[1], i)

SharedBefore(number, i) ==
  \E j, k \in 1..(i - 1) :
    /\ thoughts[j].thoughtNumber = number
    /\ thoughts[k].thoughtNumber = number
    /\ RecordId(j) # RecordId(k)

PresentBranchIds(history) ==
  {history[i].branchId[1] :
     i \in {k \in 1..Len(history) : history[k].branchId # Undefined}}

\* The branchId values of the records of history whose branchId is truthy
NonEmptyBranchIds(history) ==
  {history[i].branchId[1] :
     i \in {k \in 1..Len(history) : TruthyString(history[k].branchId)}}

C27_RefreshSameOnBothPaths ==
  \A o, p \in Observers :
    (CaughtUp(o) /\ CaughtUp(p)) =>
      \A i \in 1..Len(nodesData[o]) :
        \A j \in 1..Len(nodesData[p]) :
          nodesData[o][i].id = nodesData[p][j].id =>
            /\ nodesData[o][i].label = nodesData[p][j].label
            /\ nodesData[o][i].title = nodesData[p][j].title

\* The ids of the links the delta emitted for the node carried
EmittedLinkIdsOf(nodeId) ==
  UNION {LinkIds(emitted[k].links) :
           k \in {n \in 1..Len(emitted) : emitted[n].nodes[1].id = nodeId}}

\* C28: for every record that was ingested with a new node id, computing its
\* node id and its links again, against the history and the store as they
\* stand now, gives the node id that is stored and the link ids that its
\* delta carried; the link ids so recomputed for all records are those of
\* the snapshot.
C28_RecomputationReproducesIds ==
  /\ \A i \in 1..Len(thoughts) :
       FirstWithId(i) =>
         /\ createD3Node(thoughts[i]).id \in NodeIds(nodes)
         /\ LinkIds(calculateNewD3Links(thoughts[i], thoughts, nodeMap))
              = EmittedLinkIdsOf(RecordId(i))
  /\ UNION {LinkIds(calculateNewD3Links(thoughts[i], thoughts, nodeMap)) :
              i \in {k \in 1..Len(thoughts) : FirstWithId(k)}}
       = LinkIds(links)

\* The node ids the observer has been sent on its current connection before
\* the k-th message still on its socket: those of the messages it has
\* handled (its mirror, once the init is handled) and of the earlier ones on
\* the socket
SentBefore(o, k) ==
  (IF handled[o] # <<>> THEN mirrorMap[o] ELSE {})
  \cup UNION {NodeIds(inbox[o][j].nodes) : j \in 1..(k - 1)}

\* C29: when a delta is emitted, the server's node list already holds its
\* node and the link list its links; no delta on a socket carries a node that
\* the init of that connection, or an earlier delta of it, carried.
C29_StoredBeforeEmitted ==
  [][/\ emitted' # emitted =>
          LET msg == emitted'[Len(emitted')]
          IN  /\ Len(emitted') = Len(emitted) + 1
              /\ NodeIds(msg.nodes) \subseteq NodeIds(nodes')
              /\ NodeIds(msg.nodes) \subseteq nodeMap'
              /\ LinkIds(msg.links) \subseteq LinkIds(links')
     /\ \A o \in Observers :
          connected'[o] =>
            \A k \in 1..Len(inbox'[o]) :
              inbox'[o][k].type = "thoughtAdded" =>
                NodeIds(inbox'[o][k].nodes) \cap SentBefore(o, k)' = {}]_vars

\* C29 witness: an observer has handled an init that carried a node, and a
\* delta emitted since is on its socket
C29_Witness ==
  \E o \in Observers :
    /\ handled[o] = <<"init">>
    /\ Len(nodesData[o]) >= 1
    /\ Len(inbox[o]) >= 1
    /\ inbox[o][1].type = "thoughtAdded"

\* C30: in every state, however many observers are connected and however
\* many messages they have not handled, each call can be processed at once:
\* it is answered (with success exactly when its input is valid) in a step in
\* which no observer handles a message.
C30_IngestionNeverStalls ==
  \A input \in Inputs :
    Admitted(input) =>
      ENABLED (/\ ProcessThought(input)
               /\ response'.isError <=> validationError(input) # NoError
               /\ UNCHANGED <<handled, nodesData, linksData, mirrorMap>>)

\* C30 witness: both observers are connected and have handled nothing, two
\* records were accepted since the first connected and their deltas are
\* behind its init, and the history is below its bound
C30_Witness ==
  /\ \A o \in Observers : connected[o] /\ handled[o] = <<>>
  /\ \E o \in Observers : Len(inbox[o]) = 3
  /\ ~response.isError
  /\ Len(thoughtHistory) = 2
  /\ Len(thoughtHistory) < MaxHistory

----------------------------------------------------------------------------
(* Claims on the shape of the graph *)

\* The keys of nodeMap when record i was ingested: the ids of the records
\* before it
NodeMapBefore(i) == {RecordId(j) : j \in 1..(i - 1)}

\* What calculateNewD3Links returned for record i at its ingestion: it read
\* this.thoughts with record i already pushed and nodeMap without its node
ComputedLinks(i) ==
  calculateNewD3Links(thoughts[i], SubSeq(thoughts, 1, i), NodeMapBefore(i))

\* The end of a link that stands for the reference of the record: the source
\* of a branch link, the target of a revision link
ReferenceEnd(l) == IF l.type = "branch" THEN l.source ELSE l.target

\* C31: the endpoint chosen for a record's branchFromThought or revisesThought
\* is the node of a record ingested strictly before it, never the record's own
\* node: no link computed for a record and no link of the snapshot has its
\* source equal to its target.
C31_ReferencesDenoteEarlierRecords ==
  /\ \A i \in 1..Len(thoughts) :
       \A l \in Range(ComputedLinks(i)) :
         /\ l.source # l.target
         /\ l.type \in {"branch", "revision"} =>
              \E j \in 1..(i - 1) :
                /\ RecordId(j) = ReferenceEnd(l)
                /\ RecordId(j) # RecordId(i)
  /\ \A l \in Range(links) : l.source # l.target

\* The links of the list are at most three, at most one of each type, and
\* each has the node as its target (linear, branch) or its source (revision)
LinksOfOneRecord(ls, nodeId) ==
  /\ Len(ls) <= 3
  /\ \A a, b \in 1..Len(ls) : ls[a].type = ls[b].type => a = b
  /\ \A l \in Range(ls) :
       /\ l.type \in {"linear", "branch", "revision"}
       /\ IF l.type = "revision" THEN l.source = nodeId ELSE l.target = nodeId

\* C32: every accepted record has exactly one node in the snapshot, the links
\* computed for it are at most three, at most one of each type, each with the
\* record's node as target (linear, branch) or source (revision), and so are
\* the links of every emitted delta with respect to the delta's node.
C32_OneNodeAtMostThreeLinks ==
  /\ \A i \in 1..Len(thoughts) :
       /\ Cardinality({k \in 1..Len(nodes) : nodes[k].id = RecordId(i)}) = 1
       /\ LinksOfOneRecord(ComputedLinks(i), RecordId(i))
  /\ \A k \in 1..Len(emitted) :
       /\ Len(emitted[k].nodes) = 1
       /\ LinksOfOneRecord(emitted[k].links, emitted[k].nodes[1].id)

\* C32 witness: a record for which a linear, a branch and a revision link
\* were computed, after a delta was emitted
C32_Witness ==
  /\ emitted # <<>>
  /\ \E i \in 1..Len(thoughts) : Len(ComputedLinks(i)) = 3

\* Every link calculateNewD3Links returned for an accepted record
AllComputedLinks == UNION {Range(ComputedLinks(i)) : i \in 1..Len(thoughts)}

LinkTriple(l) == <<l.source, l.target, l.type>>

\* C33: no two entries of the snapshot's link list have the same id, and
\* among the stored and the computed links two links have the same id exactly
\* when they have the same source, target and type.
C33_LinkIdsDistinct ==
  /\ \A a, b \in 1..Len(links) : links[a].id = links[b].id => a = b
  /\ \A l1, l2 \in Range(links) \cup AllComputedLinks :
       (l1.id = l2.id) <=> (LinkTriple(l1) = LinkTriple(l2))

\* C33 witness: two records with the same node id and the same reference for
\* which the same link was computed, and another computed link beside it
C33_Witness ==
  /\ \E i, j \in 1..Len(thoughts) :
       /\ i < j
       /\ RecordId(i) = RecordId(j)
       /\ ComputedLinks(i) # <<>>
       /\ ComputedLinks(i) = ComputedLinks(j)
  /\ Cardinality(AllComputedLinks) >= 2

\* The step ingests a record whose node id is already in the store
Refreshes == Accepts /\ getNodeId(Accepted) \in nodeMap

\* C34: when a record with an already stored node id is ingested, the node
\* list keeps its length and order, every node keeps its id, thoughtNumber and
\* group, every node but the one with the record's id is unchanged, the link
\* list and nodeMap are unchanged, and the records stored by the earlier
\* ingestions are unchanged.
C34_RefreshTouchesDisplayOnly ==
  [][Refreshes =>
       /\ Len(nodes') = Len(nodes)
       /\ \A k \in 1..Len(nodes) :
            /\ nodes'[k].id = nodes[k].id
            /\ nodes'[k].thoughtNumber = nodes[k].thoughtNumber
            /\ nodes'[k].group = nodes[k].group
            /\ nodes[k].id # getNodeId(Accepted) => nodes'[k] = nodes[k]
       /\ links' = links
       /\ nodeMap' = nodeMap
       /\ SubSeq(thoughtHistory', 1, Len(thoughtHistory)) = thoughtHistory
       /\ SubSeq(thoughts', 1, Len(thoughts)) = thoughts]_vars

\* C34 witness: a main-line node whose id was taken again by a revision
\* record: its tooltip names the revision, its group is still main
C34_Witness ==
  \E i, j \in 1..Len(thoughts) :
    /\ i < j
    /\ FirstWithId(i)
    /\ RecordId(i) = RecordId(j)
    /\ nodeGroup(thoughts[i]) = "main"
    /\ nodeGroup(thoughts[j]) = "revision"
    /\ \E n \in Range(nodes) :
         /\ n.id = RecordId(i)
         /\ n.group = "main"
         /\ n.title # createD3Node(thoughts[i]).title

\* C35: the source and the target of every link of the snapshot, and of every
\* link computed for an accepted record, are ids of nodes of the snapshot, and
\* the keys of nodeMap are exactly the ids of the nodes.
C35_SnapshotReferentialIntegrity ==
  /\ \A l \in Range(links) \cup AllComputedLinks :
       l.source \in NodeIds(nodes) /\ l.target \in NodeIds(nodes)
  /\ nodeMap = NodeIds(nodes)

\* C35 witness: two stored nodes and a link computed between them
C35_Witness ==
  /\ Cardinality(nodeMap) = 2
  /\ \E l \in AllComputedLinks : l.source # l.target

\* C36: whatever init and thoughtAdded messages a page has handled, in
\* whatever order and however often, no two nodes of its mirror have the same
\* id, the keys of its nodeMap are the ids of its nodes, no two links of its
\* mirror have the same id, and both ends of every mirror link are ids of
\* mirror nodes.
C36_MirrorReferentialIntegrity ==
  \A o \in Observers :
    /\ \A a, b \in 1..Len(nodesData[o]) :
         nodesData[o][a].id = nodesData[o][b].id => a = b
    /\ mirrorMap[o] = NodeIds(nodesData[o])
    /\ \A a, b \in 1..Len(linksData[o]) :
         linksData[o][a].id = linksData[o][b].id => a = b
    /\ \A l \in Range(linksData[o]) :
         l.source \in mirrorMap[o] /\ l.target \in mirrorMap[o]

\* C36 witness: a page that handled the delta of record 2 before the node of
\* record 1 was known, and then the deltas of records 1 and 2: the link of
\* the first delta was skipped, the one of the repeated delta is held once
C36_Witness ==
  \E o \in Observers :
    /\ handled[o] = <<"thoughtAdded", "thoughtAdded", "thoughtAdded">>
    /\ nodesData[o] = <<WireNode(2), WireNode(1)>>
    /\ linksData[o] = WireLinks(2)

----------------------------------------------------------------------------
(* Liveness: ingestion and one observer whose message delivery does not
   stall.  Observers do not interact, so one of them stands for each. *)

LiveObserver == CHOOSE o \in Observers : TRUE

LiveConnects == Connect(LiveObserver)
LiveDisconnects == Disconnect(LiveObserver)
LiveReceives == Deliver(LiveObserver)

\* A page handles a message that stays on its open socket (the event loop
\* of the page runs the socket handlers)
Fairness == WF_vars(LiveReceives)
NextLive == Ingest \/ LiveConnects \/ LiveDisconnects \/ LiveReceives
SpecLive == Init /\ [][NextLive]_vars /\ Fairness

\* The records an ingestion over Inputs can store
StorableRecords ==
  {raiseTotalThoughts(validateThoughtData(input)) :
     input \in {i \in Inputs : validationError(i) = NoError}}

\* The node ids an ingestion over Inputs can store, and the ids of the links
\* the link rules give a record after another when every node is known
StorableNodeIds == {getNodeId(r) : r \in StorableRecords}
StorableLinkIds ==
  UNION {LinkIds(calculateNewD3LinksUnguarded(r, <<earlier, r>>, StorableNodeIds)) :
           earlier \in StorableRecords, r \in StorableRecords}

\* The step leaves the socket of every observer without a connection empty
OnlyToConnected ==
  \A o \in Observers : ~connected[o] /\ ~connected'[o] => inbox'[o] = <<>>

\* The observer holds the node, or the link, with the id in its mirror
Mirrored(o, id) ==
  id \in NodeIds(nodesData[o]) \/ id \in LinkIds(linksData[o])

\* The server's snapshot holds the node, or the link, with the id
Stored(id) == id \in NodeIds(nodes) \/ id \in LinkIds(links)

\* C37: nothing is put on the socket of an observer that is not connected;
\* and whenever the observer is connected while the snapshot holds a node or
\* a link, then, messages being delivered, its mirror eventually holds it
\* too, unless the connection is closed first.
C37_ReconnectCatchesUp ==
  /\ [][OnlyToConnected]_vars
  /\ \A id \in StorableNodeIds \cup StorableLinkIds :
       (connected[LiveObserver] /\ Stored(id))
         ~> (~connected[LiveObserver] \/ Mirrored(LiveObserver, id))

\* C37 witness: an observer with a mirror of one node from an earlier
\* connection has connected again, and the init on its socket carries the
\* second node, stored while it was away
C37_Witness ==
  \E o \in Observers :
    /\ connected[o]
    /\ handled[o] = <<>>
    /\ Len(nodesData[o]) = 1
    /\ Len(inbox[o]) = 1
    /\ Len(inbox[o][1].nodes) = 2
    /\ Len(emitted) = 2

\* The record for which the k-th node of the snapshot was created: the first
\* accepted record with the node's id
CreatorOf(k) ==
  thoughts[CHOOSE i \in 1..Len(thoughts) :
             RecordId(i) = nodes[k].id /\ FirstWithId(i)]

\* The id is the main-line id of the node's thought number
IsMainLineNode(n) == n.id = "main-T" \o ToString(n.thoughtNumber)

\* C38: the group of every node is revision when the record it was created
\* for has isRevision true, otherwise branch when that record has a
\* branchFromThought, otherwise main; every node of group main has a
\* main-line id, and every node with a branch id has group branch or revision.
C38_NodeKindFromFlags ==
  \A k \in 1..Len(nodes) :
    /\ nodes[k].group =
         (IF CreatorOf(k).isRevision = Def(TRUE) THEN "revision"
          ELSE IF CreatorOf(k).branchFromThought # Undefined THEN "branch"
          ELSE "main")
    /\ nodes[k].group = "main" => IsMainLineNode(nodes[k])
    /\ ~IsMainLineNode(nodes[k]) => nodes[k].group \in {"branch", "revision"}

\* C38 witness: a node created for a record that is a revision and a branch
\* at once, beside a main node and a branch node
C38_Witness ==
  /\ \E k \in 1..Len(nodes) :
       /\ CreatorOf(k).isRevision = Def(TRUE)
       /\ CreatorOf(k).branchFromThought # Undefined
       /\ nodes[k].group = "revision"
       /\ ~IsMainLineNode(nodes[k])
  /\ \E k \in 1..Len(nodes) : nodes[k].group = "main"
  /\ \E k \in 1..Len(nodes) : nodes[k].group = "branch"

\* A record, or an input, with a branchFromThought and no branchId
BranchWithoutId(r) == r.branchFromThought # Undefined /\ r.branchId = Undefined

\* C39: an input with a positive branchFromThought and no branchId passes
\* validation whenever it passes without the branchFromThought; when such a
\* record is ingested the branch registry is unchanged and its node id is the
\* main-line id of its thoughtNumber, and when a node with that id is already
\* stored no node is added and no delta is emitted.
C39_BranchWithoutIdIsMainLine ==
  [][/\ \A input \in GraphInputs :
          (/\ BranchWithoutId(input)
           /\ IsPositiveInteger(input.branchFromThought)
           /\ validationError([input EXCEPT !.branchFromThought = Undefined]) = NoError)
          => validationError(input) = NoError
     /\ (Accepts /\ BranchWithoutId(Accepted)) =>
          /\ ~response'.isError
          /\ branches' = branches
          /\ response'.branches = DOMAIN branches
          /\ getNodeId(Accepted) = "main-T" \o ToString(Accepted.thoughtNumber)
          /\ getNodeId(Accepted) \in NodeIds(nodes')
          /\ getNodeId(Accepted) \in NodeIds(nodes) =>
               /\ Len(nodes') = Len(nodes)
               /\ nodeMap' = nodeMap
               /\ emitted' = emitted]_vars

\* C39 witness: main thought 1, then a record with thoughtNumber 1 and
\* branchFromThought 1 without branchId: accepted, one node, no branch
C39_Witness ==
  /\ Len(thoughts) = 2
  /\ ~BranchWithoutId(thoughts[1])
  /\ BranchWithoutId(thoughts[2])
  /\ RecordId(1) = RecordId(2)
  /\ Len(nodes) = 1
  /\ Len(emitted) = 1
  /\ DOMAIN branches = {}
  /\ ~response.isError
  /\ response.thoughtHistoryLength = 2

====
